---- MODULE Spec2Model ----
(***************************************************************************)
(* Model of scm-to-xls.py: the source accessors (GitAccessor, HgAccessor,  *)
(* SvnAccessor), the report writers (CommitHistoryWriter,                  *)
(* ImpactStatementWriter) and main().                                      *)
(*                                                                         *)
(* Text is modelled as a sequence of one-character strings, so that        *)
(* splitlines / split / strip / endswith are computed, not assumed.        *)
(***************************************************************************)
EXTENDS Integers, Sequences, FiniteSets, TLC

VARIABLES
    pc,         \* position of the run (of main(), or of the driver of a class)
    options,    \* parsed command line options (main)
    env,        \* what the environment holds: repositories, time zone, disk
    accessor,   \* the accessor object built by main(), or NoneVal
    outfile,    \* main()'s local variable outfile
    writer,     \* the Writer object, or NoneVal
    data,       \* the value returned by the last get_log()
    exc,        \* the exception that ended the run, "none" if none
    exitCode,   \* process exit status, -1 while running
    files,      \* names of the files written by Writer.save()
    calls,      \* the Writer methods completed so far, in order
    stats,      \* text of a diff-stat block (the diff of one commit)
    hasParent,  \* whether the commit being normalised has a parent
    diff        \* the changed-files list computed for that commit

vars == <<pc, options, env, accessor, outfile, writer, data, exc, exitCode,
          files, calls, stats, hasParent, diff>>

\* ---------------------------------------------------------------- bounds
MaxLen == 6         \* longest diff-stat text enumerated
MaxCommits == 3     \* most commits in an enumerated repository
MaxTime == 3        \* commit times range over 1..MaxTime
MaxCalls == 5       \* most method calls made on one Writer

NoneVal == [none |-> TRUE]

\* ------------------------------------------------------------ text helpers
NL == "\n"
Alphabet == {"a", "|", " ", NL}
Whitespace == {" ", NL}

Texts(n) == UNION {[1..k -> Alphabet] : k \in 0..n}

Max(a, b) == IF a >= b THEN a ELSE b

\* str.splitlines(): a line ends at each newline; no empty last line is
\* produced for a text that ends in a newline, and "" gives [].
RECURSIVE SplitLinesFrom(_, _, _)
SplitLinesFrom(s, i, cur) ==
    IF i > Len(s) THEN (IF cur = <<>> THEN <<>> ELSE <<cur>>)
    ELSE IF s[i] = NL THEN <<cur>> \o SplitLinesFrom(s, i + 1, <<>>)
    ELSE SplitLinesFrom(s, i + 1, Append(cur, s[i]))

SplitLines(s) == SplitLinesFrom(s, 1, <<>>)

\* str.split(sep): all the pieces between occurrences of sep.
RECURSIVE SplitFrom(_, _, _, _)
SplitFrom(s, sep, i, cur) ==
    IF i > Len(s) THEN <<cur>>
    ELSE IF s[i] = sep THEN <<cur>> \o SplitFrom(s, sep, i + 1, <<>>)
    ELSE SplitFrom(s, sep, i + 1, Append(cur, s[i]))

Split(s, sep) == SplitFrom(s, sep, 1, <<>>)

RECURSIVE LStrip(_)
LStrip(s) ==
    IF s # <<>> /\ Head(s) \in Whitespace THEN LStrip(Tail(s)) ELSE s

RECURSIVE RStrip(_)
RStrip(s) ==
    IF s # <<>> /\ s[Len(s)] \in Whitespace
    THEN RStrip(SubSeq(s, 1, Len(s) - 1)) ELSE s

\* str.strip()
Strip(s) == RStrip(LStrip(s))

\* ----------------------------------------------- GitAccessor: diff-stat
\* DropLastLine with the slice taken at the wrong end.
DropFirstLine(lines) ==
    IF Len(lines) >= 1 THEN SubSeq(lines, 2, Len(lines)) ELSE lines

\* Lines 58-60: diff = diff.splitlines(); drop the last line if there is one.
DropLastLine(lines) ==
    IF Len(lines) >= 1 THEN SubSeq(lines, 1, Len(lines) - 1) ELSE lines

\* Line 62: [ d.split("|")[0].strip() for d in diff ]
StrippedDiff(lines) == [i \in 1..Len(lines) |-> Strip(Split(lines[i], "|")[1])]

\* Lines 56-62: the diff text is "" for a commit without parents.
NormalizeDiff(parent, text) ==
    StrippedDiff(DropLastLine(SplitLines(IF parent THEN text ELSE <<>>)))

\* -------------------------------------------------- the environment
\* A git history as seen from head: commits 1..n, commit 1 is head, every
\* commit is reachable from head and a parent has a larger number than its
\* children.  n = 0 is a repository whose head is unborn.
Reaches(par, n) ==
    \A c \in 2..n : \E d \in 1..(c - 1) : c \in par[d]

Histories(n) ==
    {par \in [1..n -> SUBSET (2..n)] :
        /\ \A c \in 1..n : \A d \in par[c] : d > c
        /\ Reaches(par, n)}

\* Commit times of n commits.  The walk only compares them, so the times
\* used are 1..k for some k: no value is skipped.
CommitTimes(n) ==
    {tm \in [1..n -> 1..MaxTime] :
        \A t \in 2..MaxTime :
            (\E c \in 1..n : tm[c] = t) => (\E c \in 1..n : tm[c] = t - 1)}

\* An hg changeset as hglib reports it: the author field may or may not
\* hold "<email>".
HgLogs == UNION {[1..k -> [authorHasEmail : BOOLEAN]] : k \in 0..2}

DefaultEnv ==
    [n |-> 0, parents |-> <<>>, time |-> <<>>,
     walkSorted |-> FALSE, tieLow |-> TRUE, dst |-> FALSE,
     repoValid |-> TRUE, hglog |-> <<>>, writable |-> TRUE]

\* An optional string (an option value): Python None, or a string; <<>> is
\* the empty string.  Hex(c) is the full hex identifier of commit c.
NoStr == [given |-> FALSE, str |-> <<>>]
Str(s) == [given |-> TRUE, str |-> s]
Hex(c) == <<"c", c>>

\* Python truthiness of an optional string (lines 73, 107, 233).
Truthy(o) == o.given /\ o.str # <<>>

\* --------------------------------------------------- GitAccessor.get_log
\* Local time zone of datetime.fromtimestamp (line 69).  Times are counted
\* in half hours; in a zone with daylight saving the clock is set back by
\* DstShift at the instant DstEnd.
DstShift == 2
DstEnd == 2
fromtimestamp(e, t) == IF e.dst /\ t < DstEnd THEN t + DstShift ELSE t

\* The commit the time-sorted walk yields next: the newest one queued; the
\* order among equal commit times is the library's.
PickNext(e, queue) ==
    LET newest == {c \in queue : \A d \in queue : e.time[c] >= e.time[d]}
    IN  IF e.tieLow
        THEN CHOOSE c \in newest : \A d \in newest : c <= d
        ELSE CHOOSE c \in newest : \A d \in newest : c >= d

RECURSIVE WalkFrom(_, _, _)
WalkFrom(e, queue, seen) ==
    IF queue = {} THEN <<>>
    ELSE LET c == PickNext(e, queue)
         IN  <<c>> \o WalkFrom(e, (queue \ {c}) \cup (e.parents[c] \ seen),
                               seen \cup e.parents[c])

\* Walk following first parents only (the lowest-numbered parent here).
RECURSIVE FirstParentChain(_, _)
FirstParentChain(e, c) ==
    IF e.parents[c] = {} THEN <<c>>
    ELSE <<c>> \o FirstParentChain(e, CHOOSE d \in e.parents[c] :
                                          \A x \in e.parents[c] : d <= x)
WalkFirstParent(e) == FirstParentChain(e, 1)

\* self._scm.walk(head.target, GIT_SORT_TIME), line 55.  Either the library
\* queues a commit's parents when it yields the commit, or it collects the
\* whole history first and yields it sorted by commit time.
Walk(e) ==
    IF e.walkSorted THEN WalkFrom(e, 1..e.n, 1..e.n)
    ELSE WalkFrom(e, {1}, {1})

\* The diff-stat text of commit c against its first parent (line 56):
\* even commits touch a and b, odd ones touch a; then the summary line.
StatsOf(c) ==
    IF c % 2 = 0
    THEN <<" ", "a", " ", "|", " ", "1", NL,
           " ", "b", " ", "|", " ", "2", NL, " ", "2", " ", "f", NL>>
    ELSE <<" ", "a", " ", "|", " ", "1", NL, " ", "1", " ", "f", NL>>

\* Lines 64-71: the LogEntry of commit c.
GitEntry(e, c) ==
    [id |-> Hex(c),
     time |-> fromtimestamp(e, e.time[c]),
     diff |-> NormalizeDiff(e.parents[c] # {}, StatsOf(c))]

\* GitStopHere with the loop never ended early.
StopNever(rev, c) == FALSE

\* Line 73: the test that ends the loop after commit c.
GitStopHere(rev, c) == Truthy(rev) /\ Hex(c) = rev.str

\* Lines 55-74: the loop over the walk, from its i-th commit on.
RECURSIVE GitLoop(_, _, _, _, _)
GitLoop(e, rev, walk, i, acc) ==
    IF i > Len(walk) THEN acc
    ELSE LET c == walk[i]
             acc2 == Append(acc, GitEntry(e, c))
         IN  IF GitStopHere(rev, c) THEN acc2
             ELSE GitLoop(e, rev, walk, i + 1, acc2)

\* Lines 52-76.  Resolving head of a repository without commits raises.
GitAccessor_get_log(e, rev) ==
    IF e.n = 0 THEN [ok |-> FALSE, exc |-> "GitError", data |-> <<>>]
    ELSE [ok |-> TRUE, exc |-> "none", data |-> GitLoop(e, rev, Walk(e), 1, <<>>)]

\* ---------------------------------------------------- HgAccessor.get_log
\* Line 99: the identifier of an hg entry, "<rev> - <node>".
HgId(i) == <<i, "-", Hex(i)>>

\* Lines 87-108: the loop over the hglib log, from its i-th changeset on.
\* Line 102 indexes the second piece of the author split at "<"; line 107
\* reads c.id of an hglib revision, which has no such attribute, whenever
\* the start revision is truthy.
RECURSIVE HgLoop(_, _, _, _)
HgLoop(e, rev, i, acc) ==
    IF i > Len(e.hglog) THEN [ok |-> TRUE, exc |-> "none", data |-> acc]
    ELSE IF ~e.hglog[i].authorHasEmail
         THEN [ok |-> FALSE, exc |-> "IndexError", data |-> <<>>]
    ELSE LET acc2 == Append(acc, [id |-> HgId(i), time |-> 0, diff |-> <<>>])
         IN  IF Truthy(rev)
             THEN [ok |-> FALSE, exc |-> "AttributeError", data |-> <<>>]
             ELSE HgLoop(e, rev, i + 1, acc2)

\* Lines 84-110.
HgAccessor_get_log(e, rev) == HgLoop(e, rev, 1, <<>>)

\* accessor.get_log() as write_data calls it (line 156); main() leaves
\* accessor None for an scm it does not know (lines 240-247).
get_log(e, acc) ==
    IF acc = NoneVal THEN [ok |-> FALSE, exc |-> "AttributeError", data |-> <<>>]
    ELSE IF acc.kind = "git" THEN GitAccessor_get_log(e, acc.start_rev)
    ELSE HgAccessor_get_log(e, acc.start_rev)

\* ------------------------------------------------- accessor construction
\* NewAccessor with SvnAccessor.__init__ returning normally.
NewAccessorSvnBuilt(e, scm, rev) ==
    IF ~e.repoValid
    THEN [ok |-> FALSE, exc |-> "RepositoryError", acc |-> NoneVal]
    ELSE [ok |-> TRUE, exc |-> "none", acc |-> [kind |-> scm, start_rev |-> rev]]

\* Lines 47-50, 79-82, 113-116: GitAccessor and HgAccessor open the
\* repository, SvnAccessor raises.
NewAccessor(e, scm, rev) ==
    IF scm = "svn"
    THEN [ok |-> FALSE, exc |-> "NotImplementedError", acc |-> NoneVal]
    ELSE IF ~e.repoValid
    THEN [ok |-> FALSE, exc |-> "RepositoryError", acc |-> NoneVal]
    ELSE [ok |-> TRUE, exc |-> "none", acc |-> [kind |-> scm, start_rev |-> rev]]

\* ------------------------------------------------------------- Writer
\* A sheet is the sequence of its rows, a row the sequence of its cells;
\* a cell holds Cell(v), and Blank when it exists without a value.
Blank == <<>>
Cell(v) == <<v>>

\* Line 124.
BaseColumns == <<"Date", "Commit-ID", "Message", "Author", "Changed files">>
\* Line 201.
ExtraColumns == <<"Affected testcases", "Tested with version">>

\* Lines 121-134, 180-182, 192-194.
NewWriter(kind, filename) ==
    [kind |-> kind, filename |-> filename, columns |-> BaseColumns, sheet |-> <<>>]

\* ws.max_row: the last row that holds a cell, 1 on an empty sheet.
MaxRow(sheet) ==
    LET used == {r \in 1..Len(sheet) : sheet[r] # <<>>}
    IN  IF used = {} THEN 1 ELSE CHOOSE r \in used : \A q \in used : q <= r

\* ws[col + str(row)] for the first n columns: a cell is created where
\* there is none (lines 142-148, 159-174).
\* PadRow with the cells only looked up, never created.
NoPadRow(row, n) == row

RECURSIVE PadRow(_, _)
PadRow(row, n) == IF Len(row) >= n THEN row ELSE PadRow(Append(row, Blank), n)

RECURSIVE PadSheet(_, _)
PadSheet(sheet, r) == IF Len(sheet) >= r THEN sheet ELSE PadSheet(Append(sheet, <<>>), r)

TouchRow(sheet, r, n) ==
    LET s == PadSheet(sheet, r) IN [s EXCEPT ![r] = PadRow(@, n)]

\* ws['A1'] = ..., ws['B1'] = ... (lines 186-187, 199-200).
SetTitle(sheet, title) ==
    LET s == TouchRow(sheet, 1, 2)
    IN  [s EXCEPT ![1] = [@ EXCEPT ![1] = Cell(title), ![2] = Cell("Generated on")]]

\* Writer.write_header, lines 136-148.
Writer_write_header(w) ==
    LET s == Append(Append(w.sheet, <<>>),
                    [i \in 1..Len(w.columns) |-> Cell(w.columns[i])])
    IN  [w EXCEPT !.sheet = TouchRow(s, MaxRow(s), Len(w.columns))]

\* ImpactStatementWriter.write_header, line 201.
ExtendColumns(cols) == cols \o ExtraColumns

\* CommitHistoryWriter.write_header (184-189) and
\* ImpactStatementWriter.write_header (196-202).
write_header(w) ==
    IF w.kind = "history"
    THEN Writer_write_header([w EXCEPT !.sheet = SetTitle(@, "Commit history")])
    ELSE Writer_write_header([w EXCEPT !.sheet = SetTitle(@, "Impact statement"),
                                   !.columns = ExtendColumns(@)])

\* Line 157: the five cells of a data row.
strftime(t) == <<"time", t>>
\* "\n".join(d.diff)
RECURSIVE Join(_)
Join(list) ==
    IF list = <<>> THEN <<>>
    ELSE IF Len(list) = 1 THEN list[1]
    ELSE list[1] \o <<NL>> \o Join(Tail(list))

DataRow(d) ==
    <<Cell(strftime(d.time)), Cell(d.id), Cell("msg"), Cell("author"),
      Cell(Join(d.diff))>>

\* Lines 156-169: one row per entry, then its cells styled.
RECURSIVE WriteRows(_, _, _, _)
WriteRows(sheet, log, i, ncols) ==
    IF i > Len(log) THEN sheet
    ELSE LET s == Append(sheet, DataRow(log[i]))
         IN  WriteRows(TouchRow(s, MaxRow(s), Max(ncols, 3)), log, i + 1, ncols)

\* Writer.write_data, lines 153-174, given the log get_log returned.
write_data(w, log) ==
    LET s == WriteRows(w.sheet, log, 1, Len(w.columns))
    IN  [w EXCEPT !.sheet = TouchRow(s, MaxRow(s), Len(w.columns))]

\* Writer.save, line 177: the workbook replaces the file of that name.
save(fs, w) ==
    LET keep == SelectSeq(fs, LAMBDA f : f.name # w.filename)
    IN  Append(keep, [name |-> w.filename, sheet |-> w.sheet])

\* ------------------------------------------------------------- main()
Ext == <<".", "x", "l", "s", "x">>
HistoryPrefix == <<"H", "i", "s", "t", "o", "r", "y", "-">>
ImpactsPrefix == <<"I", "m", "p", "a", "c", "t", "s", "-">>

\* str.endswith
EndsWith(s, suf) ==
    /\ Len(s) >= Len(suf)
    /\ SubSeq(s, Len(s) - Len(suf) + 1, Len(s)) = suf

\* DeriveOutfile with the extension appended unconditionally.
AlwaysAppendExt(name) == name \o Ext

\* Lines 249-252.
DeriveOutfile(name) == IF ~EndsWith(name, Ext) THEN name \o Ext ELSE name

\* Lines 254-259: the writer main() builds; history wins when both are set.
MakeWriter(history, impact, out) ==
    IF history THEN NewWriter("history", HistoryPrefix \o out)
    ELSE NewWriter("impact", ImpactsPrefix \o out)

\* sys.exit(n): the exit status the process ends with (lines 231, 235).
ExitStatus(n) == n % 256

NoLog == [ok |-> FALSE, exc |-> "not called", data |-> <<>>]

\* The outfile names and start revisions a run is given.
OutfileNames ==
    {<<>>, <<"x">>, Ext, <<"x">> \o Ext, <<"x">> \o Ext \o Ext,
     <<"x", "l", "s", "x">>, <<"x", ".", "x", "l", "s">>}

DefaultOptions ==
    [history |-> FALSE, impact |-> FALSE, outfile |-> NoStr, scm |-> "git",
     rev |-> NoStr]

\* The state of a run before main() has built or called anything.
RunIdle ==
    /\ accessor = NoneVal
    /\ outfile = NoStr
    /\ writer = NoneVal
    /\ data = NoLog
    /\ exc = "none"
    /\ exitCode = -1
    /\ files = <<>>
    /\ calls = <<>>

DiffIdle ==
    /\ stats = <<>>
    /\ hasParent = FALSE
    /\ diff = <<>>

\* The repository main() is pointed at: a git history of up to two commits,
\* or an hg log, or a directory that holds no repository.
MainEnvs(scm) ==
    {[DefaultEnv EXCEPT !.n = n, !.parents = [c \in 1..n |-> IF c < n THEN {c + 1} ELSE {}],
                        !.time = [c \in 1..n |-> n + 1 - c],
                        !.hglog = hl, !.repoValid = rv, !.writable = wr] :
        n \in (IF scm = "git" THEN 0..2 ELSE {0}),
        hl \in (IF scm = "hg" THEN HgLogs ELSE {<<>>}),
        rv \in BOOLEAN, wr \in BOOLEAN}

\* Line 227: the options as parsed.
Init ==
    /\ RunIdle
    /\ DiffIdle
    /\ pc = "checkReport"
    /\ options \in [history : BOOLEAN, impact : BOOLEAN,
                    outfile : {NoStr} \cup {Str(n) : n \in OutfileNames},
                    scm : {"git", "hg", "svn", "cvs"},
                    rev : {NoStr, Str(Hex(1)), Str(HgId(1))}]
    /\ env \in MainEnvs(options.scm)

Raise(name) ==
    /\ exc' = name
    /\ pc' = "raised"
    /\ exitCode' = 1

\* Lines 229-231.
CheckReport ==
    /\ pc = "checkReport"
    /\ IF ~options.history /\ ~options.impact
       THEN pc' = "exited" /\ exitCode' = ExitStatus(-1)
       ELSE pc' = "checkOutfile" /\ UNCHANGED exitCode
    /\ UNCHANGED <<options, env, accessor, outfile, writer, data, exc, files,
                   calls, stats, hasParent, diff>>

\* CheckOutfile with the missing name reported but the run not ended.
CheckOutfileNoExit ==
    /\ pc = "checkOutfile"
    /\ pc' = "accessor"
    /\ UNCHANGED <<options, env, accessor, outfile, writer, data, exc, exitCode,
                   files, calls, stats, hasParent, diff>>

\* Lines 233-235.
CheckOutfile ==
    /\ pc = "checkOutfile"
    /\ IF ~Truthy(options.outfile)
       THEN pc' = "exited" /\ exitCode' = ExitStatus(-1)
       ELSE pc' = "accessor" /\ UNCHANGED exitCode
    /\ UNCHANGED <<options, env, accessor, outfile, writer, data, exc, files,
                   calls, stats, hasParent, diff>>

\* Lines 237-247.
MakeAccessor ==
    /\ pc = "accessor"
    /\ IF options.scm \in {"git", "hg", "svn"}
       THEN LET r == NewAccessor(env, options.scm, options.rev)
            IN  /\ calls' = Append(calls, options.scm)
                /\ accessor' = r.acc
                /\ IF r.ok THEN pc' = "outfile" /\ UNCHANGED <<exc, exitCode>>
                   ELSE Raise(r.exc)
       ELSE /\ pc' = "outfile"
            /\ UNCHANGED <<calls, accessor, exc, exitCode>>
    /\ UNCHANGED <<options, env, outfile, writer, data, files, stats,
                   hasParent, diff>>

\* Lines 249-252.
SetOutfile ==
    /\ pc = "outfile"
    /\ outfile' = Str(DeriveOutfile(options.outfile.str))
    /\ pc' = "writer"
    /\ UNCHANGED <<options, env, accessor, writer, data, exc, exitCode, files,
                   calls, stats, hasParent, diff>>

\* Lines 254-259.
SetWriter ==
    /\ pc = "writer"
    /\ writer' = MakeWriter(options.history, options.impact, outfile.str)
    /\ pc' = "header"
    /\ UNCHANGED <<options, env, accessor, outfile, data, exc, exitCode, files,
                   calls, stats, hasParent, diff>>

\* Line 261.
MainWriteHeader ==
    /\ pc = "header"
    /\ writer' = write_header(writer)
    /\ calls' = Append(calls, "write_header")
    /\ pc' = "data"
    /\ UNCHANGED <<options, env, accessor, outfile, data, exc, exitCode, files,
                   stats, hasParent, diff>>

\* MainWriteData with a failed traversal skipped over instead of raised.
MainWriteDataSkipErrors ==
    /\ pc = "data"
    /\ calls' = Append(calls, "write_data")
    /\ LET r == get_log(env, accessor)
       IN  /\ data' = r
           /\ writer' = write_data(writer, r.data)
           /\ pc' = "save"
    /\ UNCHANGED <<options, env, accessor, outfile, exc, exitCode, files, stats,
                   hasParent, diff>>

\* Line 262: write_data calls accessor.get_log() first (line 156).
MainWriteData ==
    /\ pc = "data"
    /\ calls' = Append(calls, "write_data")
    /\ LET r == get_log(env, accessor)
       IN  /\ data' = r
           /\ IF r.ok
              THEN /\ writer' = write_data(writer, r.data)
                   /\ pc' = "save"
                   /\ UNCHANGED <<exc, exitCode>>
              ELSE /\ Raise(r.exc)
                   /\ UNCHANGED writer
    /\ UNCHANGED <<options, env, accessor, outfile, files, stats, hasParent, diff>>

\* Line 263.
MainSave ==
    /\ pc = "save"
    /\ calls' = Append(calls, "save")
    /\ IF env.writable
       THEN /\ files' = save(files, writer)
            /\ pc' = "print"
            /\ UNCHANGED <<exc, exitCode>>
       ELSE /\ Raise("PermissionError")
            /\ UNCHANGED files
    /\ UNCHANGED <<options, env, accessor, outfile, writer, data, stats,
                   hasParent, diff>>

\* Line 265 and the end of the script.
MainDone ==
    /\ pc = "print"
    /\ pc' = "done"
    /\ exitCode' = 0
    /\ UNCHANGED <<options, env, accessor, outfile, writer, data, exc, files,
                   calls, stats, hasParent, diff>>

Next ==
    \/ CheckReport
    \/ CheckOutfile
    \/ MakeAccessor
    \/ SetOutfile
    \/ SetWriter
    \/ MainWriteHeader
    \/ MainWriteData
    \/ MainSave
    \/ MainDone

Spec == Init /\ [][Next]_vars

\* ----------------------------------- GitAccessor.get_log on any history
GitEnvs(n) ==
    {[DefaultEnv EXCEPT !.n = n, !.parents = par, !.time = tm,
                        !.walkSorted = ws, !.tieLow = tl, !.dst = ds] :
        par \in Histories(n), tm \in CommitTimes(n),
        ws \in BOOLEAN, tl \in BOOLEAN, ds \in BOOLEAN}

\* The stop revisions tried on a history of n commits: none, the empty
\* string, each commit's identifier, and one that names no commit.
StopRevs(n) == {NoStr, Str(<<>>)} \cup {Str(Hex(c)) : c \in 1..(n + 1)}

\* A GitAccessor built on some repository (lines 48-50).
InitGit ==
    /\ DiffIdle
    /\ pc = "git"
    /\ options = DefaultOptions
    /\ \E n \in 0..MaxCommits : env \in GitEnvs(n)
    /\ accessor \in {[kind |-> "git", start_rev |-> r] : r \in StopRevs(env.n)}
    /\ outfile = NoStr
    /\ writer = NoneVal
    /\ data = NoLog
    /\ exc = "none"
    /\ exitCode = -1
    /\ files = <<>>
    /\ calls = <<>>

\* A call of GitAccessor.get_log(), lines 52-76.
CallGitGetLog ==
    /\ pc = "git"
    /\ data' = GitAccessor_get_log(env, accessor.start_rev)
    /\ exc' = data'.exc
    /\ pc' = IF data'.ok THEN "returned" ELSE "raised"
    /\ calls' = Append(calls, "get_log")
    /\ UNCHANGED <<options, env, accessor, outfile, writer, exitCode, files,
                   stats, hasParent, diff>>

NextGit == CallGitGetLog

SpecGit == InitGit /\ [][NextGit]_vars

\* ------------------------------------- the diff-stat of a single commit
InitDiff ==
    /\ RunIdle
    /\ pc = "diff"
    /\ options = DefaultOptions
    /\ env = DefaultEnv
    /\ stats \in Texts(MaxLen)
    /\ hasParent \in BOOLEAN
    /\ diff = <<>>

\* Lines 56-62 for one commit of the walk.
DiffStat ==
    /\ pc = "diff"
    /\ diff' = NormalizeDiff(hasParent, stats)
    /\ pc' = "diffed"
    /\ UNCHANGED <<options, env, accessor, outfile, writer, data, exc,
                   exitCode, files, calls, stats, hasParent>>

NextDiff == DiffStat

SpecDiff == InitDiff /\ [][NextDiff]_vars

\* --------------------------- a Writer whose methods are called in any order
SampleLogs ==
    {<<>>, <<[id |-> Hex(1), time |-> 1, diff |-> <<<<"a">>>>]>>}

InitWriter ==
    /\ DiffIdle
    /\ pc = "writer"
    /\ options = DefaultOptions
    /\ env = DefaultEnv
    /\ accessor = NoneVal
    /\ outfile = NoStr
    /\ writer \in {NewWriter("history", HistoryPrefix \o <<"x">> \o Ext),
                   NewWriter("impact", ImpactsPrefix \o <<"x">> \o Ext)}
    /\ data = NoLog
    /\ exc = "none"
    /\ exitCode = -1
    /\ files = <<>>
    /\ calls = <<>>

CallWriteHeader ==
    /\ pc = "writer"
    /\ Len(calls) < MaxCalls
    /\ writer' = write_header(writer)
    /\ calls' = Append(calls, "write_header")
    /\ UNCHANGED <<pc, options, env, accessor, outfile, data, exc, exitCode,
                   files, stats, hasParent, diff>>

CallWriteData ==
    /\ pc = "writer"
    /\ Len(calls) < MaxCalls
    /\ \E log \in SampleLogs :
          /\ writer' = write_data(writer, log)
          /\ data' = [ok |-> TRUE, exc |-> "none", data |-> log]
    /\ calls' = Append(calls, "write_data")
    /\ UNCHANGED <<pc, options, env, accessor, outfile, exc, exitCode, files,
                   stats, hasParent, diff>>

CallSave ==
    /\ pc = "writer"
    /\ Len(calls) < MaxCalls
    /\ files' = save(files, writer)
    /\ calls' = Append(calls, "save")
    /\ UNCHANGED <<pc, options, env, accessor, outfile, writer, data, exc,
                   exitCode, stats, hasParent, diff>>

NextWriter == CallWriteHeader \/ CallWriteData \/ CallSave

SpecWriter == InitWriter /\ [][NextWriter]_vars

\* ========================================================= properties
Min(S) == CHOOSE x \in S : \A y \in S : x <= y
MaxOf(S) == CHOOSE x \in S : \A y \in S : x >= y

\* A diff-stat block read by position, without splitting it: its lines are
\* the stretches that newlines end, plus a last one that no newline ends.
Newlines(s) == {p \in 1..Len(s) : s[p] = NL}
NumLines(s) ==
    Cardinality(Newlines(s)) + (IF s # <<>> /\ s[Len(s)] # NL THEN 1 ELSE 0)
LineStart(s, i) ==
    IF i = 1 THEN 1
    ELSE 1 + CHOOSE p \in Newlines(s) :
                 Cardinality({q \in Newlines(s) : q <= p}) = i - 1
LineAt(s, i) ==
    LET a == LineStart(s, i)
        ends == {p \in Newlines(s) : p >= a}
    IN  SubSeq(s, a, IF ends = {} THEN Len(s) ELSE Min(ends) - 1)
BeforeBar(l) ==
    LET bars == {p \in 1..Len(l) : l[p] = "|"}
    IN  IF bars = {} THEN l ELSE SubSeq(l, 1, Min(bars) - 1)
Trimmed(l) ==
    LET keep == {p \in 1..Len(l) : l[p] \notin Whitespace}
    IN  IF keep = {} THEN <<>> ELSE SubSeq(l, Min(keep), MaxOf(keep))

\* C3: the changed-files list of a commit whose diff-stat block has L lines
\* has L-1 entries (none when L = 0): only the last line is dropped, and the
\* i-th entry is the i-th line up to its first "|", trimmed of whitespace.
\* A commit without parents gets the empty list, and nothing is raised.
C3_DiffStatNormalization ==
    pc = "diffed" =>
        LET block == IF hasParent THEN stats ELSE <<>>
            L == NumLines(block)
        IN  /\ Len(diff) = (IF L >= 1 THEN L - 1 ELSE 0)
            /\ \A i \in 1..Len(diff) : diff[i] = Trimmed(BeforeBar(LineAt(block, i)))
            /\ (~hasParent => diff = <<>>)
            /\ exc = "none"

\* A block of two file lines and a last line has been normalised to two
\* names, the first cut at its "|" and trimmed.
C3_Witness ==
    /\ pc = "diffed"
    /\ hasParent
    /\ NumLines(stats) = 3
    /\ stats[1] = " "
    /\ stats[3] = "|"
    /\ diff = << <<"a">>, <<>> >>

\* ------------------------------------------------ GitAccessor.get_log
Entries == data.data
StopRev == accessor.start_rev
\* The commit an entry was made from.
CommitOf(entry) == entry.id[2]
StopMatches == \E c \in 1..env.n : StopRev = Str(Hex(c))

\* C1: with a stop revision equal to the identifier of the K-th commit of
\* the traversal (head is commit 0), get_log() returns the first K+1 commits
\* of the traversal in order, the last one being the stop revision.
C1_InclusiveStop ==
    (pc = "returned" /\ StopMatches) =>
        LET walk == Walk(env)
            p == CHOOSE q \in 1..Len(walk) : Str(Hex(walk[q])) = StopRev
        IN  /\ Len(Entries) = p
            /\ \A i \in 1..p : Entries[i].id = Hex(walk[i])
            /\ Entries[p].id = StopRev.str
            /\ \A i \in 1..(p - 1) : Entries[i].id # StopRev.str

\* get_log() has stopped at the second of three commits.
C1_Witness ==
    /\ pc = "returned"
    /\ env.n = 3
    /\ StopMatches
    /\ Len(Entries) = 2
    /\ Entries[2].id = StopRev.str
    /\ Entries[1].id = Hex(1)

OneEntryPerCommit ==
    /\ Len(Entries) = env.n
    /\ \A c \in 1..env.n : \E i \in 1..Len(Entries) : Entries[i].id = Hex(c)

RunsToEnd == pc = "returned" /\ ~StopMatches

\* C2 as stated: without a stop revision, or with one that matches no
\* commit, get_log() returns one entry per commit, newest first with
\* non-increasing timestamps, ending at the root commit.
C2_AsStated ==
    RunsToEnd =>
        /\ OneEntryPerCommit
        /\ \A i \in 1..(Len(Entries) - 1) : Entries[i].time >= Entries[i + 1].time
        /\ env.parents[CommitOf(Entries[Len(Entries)])] = {}

\* Every commit was made strictly later than each of its parents.
ParentsOlder ==
    \A c \in 1..env.n : \A d \in env.parents[c] : env.time[c] > env.time[d]

\* C2 as amended: one entry per commit reachable from head; when every
\* commit is strictly newer than its parents the commit times of the
\* entries are non-increasing and the last entry is a root commit.
C2_FullHistory ==
    RunsToEnd =>
        /\ OneEntryPerCommit
        /\ ParentsOlder =>
              /\ \A i \in 1..(Len(Entries) - 1) :
                    env.time[CommitOf(Entries[i])] >= env.time[CommitOf(Entries[i + 1])]
              /\ env.parents[CommitOf(Entries[Len(Entries)])] = {}

\* A history of three commits with a merge, each newer than its parents,
\* was walked to its root with a stop revision that matches nothing.
C2_Witness ==
    /\ RunsToEnd
    /\ env.n = 3
    /\ env.parents[1] = {2, 3}
    /\ ParentsOlder
    /\ StopRev = Str(Hex(4))
    /\ Len(Entries) = 3
    /\ Entries[3].id = Hex(3)

\* ------------------------------------------------------------ main()
Called(name) == \E i \in 1..Len(calls) : calls[i] = name
WriterCalls ==
    SelectSeq(calls, LAMBDA c : c \in {"write_header", "write_data", "save"})

\* C4 as stated: for hg and for svn, constructing the accessor (on a
\* directory that holds a repository) fails with "not implemented", and
\* get_log() is never reached.
C4_AsStated ==
    (options.scm \in {"hg", "svn"} /\ Called(options.scm) /\ env.repoValid) =>
        /\ exc = "NotImplementedError"
        /\ data = NoLog

\* C4 as amended: constructing the svn accessor fails at once with "not
\* implemented", get_log() is never reached and nothing is written; the hg
\* accessor's construction never signals "not implemented" and yields an
\* accessor on a valid repository.
C4_SvnFailsFast ==
    /\ (options.scm = "svn" /\ Called("svn")) =>
          /\ pc = "raised"
          /\ exc = "NotImplementedError"
          /\ accessor = NoneVal
          /\ data = NoLog
          /\ ~Called("write_data")
          /\ files = <<>>
    /\ (options.scm = "hg" /\ Called("hg")) =>
          /\ exc # "NotImplementedError"
          /\ env.repoValid => accessor = [kind |-> "hg", start_rev |-> options.rev]

\* main() was asked for svn and the construction raised.
C4_Witness ==
    /\ options.scm = "svn"
    /\ Called("svn")
    /\ pc = "raised"
    /\ exc = "NotImplementedError"

\* C5: after write_header() and then write_data(), the column-header row
\* and every data row have the same number of cells, 5 for the commit
\* history and 7 for the impact statement, whose two extra cells are blank
\* in every data row.
C5_RowWidths ==
    (WriterCalls = <<"write_header", "write_data">> /\ data.ok) =>
        LET sheet == writer.sheet
            width == IF writer.kind = "history" THEN 5 ELSE 7
            header == 3
        IN  /\ Len(sheet) = header + Len(data.data)
            /\ Len(sheet[header]) = width
            /\ \A i \in 1..width : sheet[header][i] = Cell(writer.columns[i])
            /\ \A r \in (header + 1)..Len(sheet) :
                  /\ Len(sheet[r]) = width
                  /\ \A i \in 1..5 : sheet[r][i] # Blank
                  /\ \A i \in 6..width : sheet[r][i] = Blank

\* An impact statement with two data rows has been written.
C5_Witness ==
    /\ pc = "save"
    /\ writer.kind = "impact"
    /\ Len(data.data) = 2
    /\ Len(writer.sheet) = 5
    /\ Len(writer.sheet[5]) = 7

\* C6: with neither report selected, or without an output file name, the
\* run ends with a non-zero exit status before an accessor is built and
\* before a writer exists or saves anything.
C6_ConfigErrors ==
    ((~options.history /\ ~options.impact) \/ ~Truthy(options.outfile)) =>
        /\ pc \in {"checkReport", "checkOutfile", "exited"}
        /\ calls = <<>>
        /\ accessor = NoneVal
        /\ writer = NoneVal
        /\ files = <<>>
        /\ pc = "exited" => exitCode \in 1..255

\* A run that selected a report but gave no file name has exited.
C6_Witness ==
    /\ pc = "exited"
    /\ options.history
    /\ options.outfile = Str(<<>>)
    /\ options.scm = "git"
    /\ exitCode = 255

\* C7: the writer's file name is "History-" for a history report and
\* "Impacts-" for an impact-only one, followed by the requested name, with
\* ".xlsx" appended exactly when the name does not already end in it.
C7_OutputName ==
    writer # NoneVal =>
        LET x == options.outfile.str
            k == Len(x) - Len(Ext)
            hasExt == k >= 0 /\ \A i \in 1..Len(Ext) : x[k + i] = Ext[i]
            full == IF hasExt THEN x ELSE x \o Ext
            name == writer.filename
        IN  /\ options.history => name = HistoryPrefix \o full
            /\ (options.impact /\ ~options.history) => name = ImpactsPrefix \o full
            /\ EndsWith(name, Ext \o Ext) => EndsWith(x, Ext \o Ext)

\* An impact-only run asked for "x.xlsx" and got "Impacts-x.xlsx".
C7_Witness ==
    /\ writer # NoneVal
    /\ ~options.history
    /\ options.outfile = Str(<<"x">> \o Ext)
    /\ writer.filename = ImpactsPrefix \o <<"x">> \o Ext

\* C8: save() is performed at most once, and only after write_header() and
\* then write_data() have each completed once; when building the accessor
\* or the traversal in write_data() fails the run aborts and nothing is
\* saved.
C8_SaveLast ==
    /\ Len(files) <= 1
    /\ Called("save") =>
          /\ WriterCalls = <<"write_header", "write_data", "save">>
          /\ data.ok
    /\ files # <<>> => (Called("save") /\ exc = "none")
    /\ pc = "raised" =>
          /\ files = <<>>
          /\ exc # "PermissionError" => ~Called("save")
    /\ (Called("write_data") /\ ~data.ok) => pc = "raised"

\* The traversal failed inside write_data() and the run ended without a file.
C8_Witness ==
    /\ pc = "raised"
    /\ Called("write_header")
    /\ Called("write_data")
    /\ ~data.ok
    /\ files = <<>>

\* C9: the hg accessor's get_log() stops after the entry whose identifier
\* is the stop revision and returns the entries up to it; without a stop
\* revision it returns one entry per changeset.
C9_HgStop ==
    (/\ options.scm = "hg"
     /\ Called("write_data")
     /\ \A i \in 1..Len(env.hglog) : env.hglog[i].authorHasEmail) =>
        /\ data.ok
        /\ IF Truthy(options.rev)
              /\ \E k \in 1..Len(env.hglog) : options.rev.str = HgId(k)
           THEN LET k == CHOOSE k \in 1..Len(env.hglog) : options.rev.str = HgId(k)
                IN  /\ Len(data.data) = k
                    /\ data.data[k].id = options.rev.str
           ELSE Len(data.data) = Len(env.hglog)

\* ------------------------------------------------------------ Writer
\* C10: whatever methods are called on a Writer, a CommitHistoryWriter has
\* 5 columns, and an ImpactStatementWriter has 5 before its first
\* write_header() and 7 after any number of them.
C10_ColumnCount ==
    /\ writer.kind = "history" => Len(writer.columns) = 5
    /\ writer.kind = "impact" =>
          Len(writer.columns) = (IF Called("write_header") THEN 7 ELSE 5)

====
